---- MODULE Spec2Model ----
(***************************************************************************)
(* teneva, module core.stat: sampling of random multi-indices from a       *)
(* TT-tensor (sample_ind_rand, _sample_core_first, _extend_core) and the   *)
(* empirical CDF getter (cdf_getter).                                      *)
(*                                                                         *)
(* Numbers.  Core entries are integers.  A core extended by _extend_core   *)
(* holds np.interp values, which are rationals with the common denominator *)
(* n - 1; the field "den" of a core keeps that denominator and "g" keeps   *)
(* the numerators.  np.random.choice(n, p = norms / norms.sum()) can       *)
(* return exactly the indices of positive mass, and fails when the masses  *)
(* sum to zero (norms becomes NaN), so a common positive factor of a core  *)
(* changes neither.  A returned coordinate is a pair <<num, den>>.         *)
(*                                                                         *)
(* Sequences are 1-based: mode index j of the code is kept as the value j  *)
(* in I and addresses position j + 1 of a core.                            *)
(***************************************************************************)
EXTENDS Integers, Sequences, FiniteSets, TLC

VARIABLES
    Z,          \* canonical cores returned by teneva.orthogonalize(Y, 0)
    m,          \* requested number of samples
    unique,     \* the flag "unique"
    m_fact,     \* oversampling factor of the current call
    max_rep,    \* retry budget of the current call
    float_cf,   \* what the free name float_cf resolves to
    pc,         \* position of the call
    I,          \* multi-index batch (sequence of rows)
    Q,          \* running contraction state (sequence of rows)
    Qtens,      \* einsum('kr,riq->kiq', Q, G) of the current dimension
    di,         \* number of dimensions already sampled
    im,         \* candidate the loop of line 110 is at
    P,          \* distinct partial rows of a batch wider than MaxWidth
    result,     \* how the call ended
    ret,        \* the returned array
    attempts,   \* history: executions of line 97
    retries,    \* history: executions of the recursive call of line 125
    width,      \* history: batch width given to _sample_core_first
    deduped,    \* history: np.unique was applied
    shuffled,   \* history: np.random.shuffle was applied
    hadDup,     \* history: the candidate batch held a repeated row
    zeroAt,     \* history: <<di, k>> where a zero total mass was met
    short,      \* history: the attempts that fell short
    call,       \* history: arguments of the recursive call
    x,          \* cdf_getter: the caller's sample
    x0,         \* history: the sample as the caller passed it
    xs,         \* cdf_getter: the closure's sorted array, -inf dropped
    ys,         \* cdf_getter: the closure's heights, as numerators over len(x)
    zq,         \* cdf: the query
    Fz,         \* cdf: the value returned for the query, <<num, den>>
    cpc         \* cdf_getter: position

svars == <<Z, m, unique, m_fact, max_rep, float_cf, pc, I, Q, Qtens, di, im, P,
           result, ret, attempts, retries, width, deduped, shuffled, hadDup,
           zeroAt, short, call>>
cvars == <<x, x0, xs, ys, zq, Fz, cpc>>
vars == <<svars, cvars>>

-----------------------------------------------------------------------------
(* Bounds of the model *)

MaxM == 2
MaxRep == 1
MaxWidth == 4
MaxLen == 3
MaxVal == 2

(* Program constants *)

MFactCeiling == 1000000
Unwritten == -1

-----------------------------------------------------------------------------
(* Arithmetic helpers *)

RECURSIVE SumSeq(_)
SumSeq(s) == IF s = <<>> THEN 0 ELSE Head(s) + SumSeq(Tail(s))

Min(a, b) == IF a < b THEN a ELSE b

\* np.sum(v**2) of one row
SumSq(v) == SumSeq([c \in 1..Len(v) |-> v[c] * v[c]])

\* one candidate of einsum('kr,riq->kiq'): sum_r q[r] * M[r][c]
VecMat(q, M) ==
    [c \in 1..Len(M[1]) |-> SumSeq([r \in 1..Len(q) |-> q[r] * M[r][c]])]

-----------------------------------------------------------------------------
(* TT-tensors: a core is [n, r1, r2, den, g], g[j + 1][a][b] = G[a, j, b] *)

Core(r1, r2, g) == [n |-> Len(g), r1 |-> r1, r2 |-> r2, den |-> 1, g |-> g]

\* d = 2, ranks 1, modes 2 and 2: (0, 1) is the only multi-index of nonzero mass
TPeak == << Core(1, 1, << <<<<1>>>>, <<<<0>>>> >>),
            Core(1, 1, << <<<<0>>>>, <<<<1>>>> >>) >>
\* d = 2, rank 2, modes 2 and 1: (0, 0) and (1, 0) have mass, their rows of Q differ
TRank2 == << Core(1, 2, << <<<<1, 0>>>>, <<<<0, 1>>>> >>),
             Core(2, 1, << <<<<1>>, <<2>>>> >>) >>
\* d = 2, rank 2, modes 2 and 1: first index 1 has mass but no continuation
TDeadEnd == << Core(1, 2, << <<<<1, 0>>>>, <<<<0, 1>>>> >>),
               Core(2, 1, << <<<<1>>, <<0>>>> >>) >>
\* d = 2: the first core is zero
TZero == << Core(1, 1, << <<<<0>>>>, <<<<0>>>> >>),
            Core(1, 1, << <<<<1>>>>, <<<<1>>>> >>) >>
\* d = 1, mode 2: both indices have mass
TOne == << Core(1, 1, << <<<<1>>>>, <<<<1>>>> >>) >>

Tensors == {TPeak, TRank2, TDeadEnd, TZero, TOne}

-----------------------------------------------------------------------------
(* _extend_core *)

\* den * np.interp(num / den, range(len(fp)), fp)
Interp(num, den, fp) ==
    LET k == num \div den
        f == num % den
    IN  IF f = 0 THEN den * fp[k + 1]
        ELSE (den - f) * fp[k + 1] + f * fp[k + 2]

\* Gn[i1, :, i2] = np.interp(np.arange(n)*(nold - 1)/(n - 1), range(nold), G[i1, :, i2])
_extend_core(G, n) ==
    [n |-> n, r1 |-> G.r1, r2 |-> G.r2, den |-> G.den * (n - 1),
     g |-> [j \in 1..n |->
              [i1 \in 1..G.r1 |->
                 [i2 \in 1..G.r2 |->
                    Interp((j - 1) * (G.n - 1), n - 1,
                           [t \in 1..G.n |-> G.g[t][i1][i2]])]]]]

-----------------------------------------------------------------------------
(* Names and calls *)

\* def sample_ind_rand(Y, m, unique=True, m_fact=5, max_rep=100)
Params == {"Y", "m", "unique", "m_fact", "max_rep"}

\* a call binds when each keyword it passes is a parameter; else TypeError
Binds(kw) == kw \subseteq Params

\* float_cf is read in sample_ind_rand but is neither a parameter nor assigned
\* in the module: it is looked up among the module's globals when the line runs.
\* What it can resolve to: nothing (NameError), None, an upsampling factor.
FloatCfs == { [bound |-> FALSE, val |-> <<>>],
              [bound |-> TRUE, val |-> <<>>],
              [bound |-> TRUE, val |-> <<2>>] }

\* oversampling factors given by the caller
MFacts == {1, 2, MFactCeiling, MFactCeiling + 1}

-----------------------------------------------------------------------------
(* sample_ind_rand: the pure parts *)

d == Len(Z)

\* G of dimension i (0-based) as sampled: Z[i], extended if float_cf is not None
CoreAt(i) ==
    IF float_cf.val = <<>> THEN Z[i + 1]
    ELSE _extend_core(Z[i + 1], Z[i + 1].n * float_cf.val[1])

\* teneva._range(n): the column of the indices 0..n-1
Range(n) == [j \in 1..n |-> <<j - 1>>]

\* m_fact*m if unique else m
MHat_Always(mm, f, u) == f * mm

MHat(mm, f, u) == IF u THEN f * mm ELSE mm

\* the batch is kept row by row up to MaxWidth rows; a wider batch (m_fact at
\* the ceiling of line 123) is kept as P, the set of its distinct partial rows,
\* which is what np.unique leaves of it
Bulk == MHat(m, m_fact, unique) > MaxWidth

\* norms = np.sum(qm**2, axis=1)
Norms(qm) == [j \in 1..Len(qm) |-> SumSq(qm[j])]

\* the indices np.random.choice(n, p=norms/norms.sum()) can return; none when
\* norms.sum() is zero: p is NaN and choice raises ValueError
Choice_Masked(norms) ==
    IF SumSeq(norms) = 0 THEN {j - 1 : j \in 1..Len(norms)}
    ELSE {j - 1 : j \in {t \in 1..Len(norms) : norms[t] > 0}}

Choice(norms) ==
    IF SumSeq(norms) = 0 THEN {}
    ELSE {j - 1 : j \in {t \in 1..Len(norms) : norms[t] > 0}}

\* Q = G.reshape(n, r2) of the first core (r1 = 1)
Reshape(G) == [j \in 1..G.n |-> G.g[j][1]]

\* Qtens[k] for one candidate: the (n, r2) slice of row q against core G
Slice(q, G) == [j \in 1..G.n |-> VecMat(q, G.g[j])]

\* np.einsum('kr,riq->kiq', Q, G)
Einsum_Shared(Qm, G) == [k \in 1..Len(Qm) |-> Slice(Qm[1], G)]

Einsum(Qm, G) == [k \in 1..Len(Qm) |-> Slice(Qm[k], G)]

\* the contraction of the cores 0..Len(p)-1 taken at the indices p
RECURSIVE ChainQ(_)
ChainQ(p) ==
    IF Len(p) = 1 THEN Reshape(CoreAt(0))[p[1] + 1]
    ELSE VecMat(ChainQ(SubSeq(p, 1, Len(p) - 1)), CoreAt(Len(p) - 1).g[p[Len(p)] + 1])

\* lexicographic order of rows of equal length
RECURSIVE RowLess(_, _)
RowLess(a, b) ==
    IF a = <<>> THEN FALSE
    ELSE IF Head(a) # Head(b) THEN Head(a) < Head(b)
    ELSE RowLess(Tail(a), Tail(b))

RECURSIVE SortRows(_)
SortRows(S) ==
    IF S = {} THEN <<>>
    ELSE LET lo == CHOOSE r \in S : \A t \in S \ {r} : RowLess(r, t)
         IN  <<lo>> \o SortRows(S \ {lo})

RECURSIVE InsertRow(_, _)
InsertRow(r, s) ==
    IF s = <<>> THEN <<r>>
    ELSE IF RowLess(Head(s), r) \/ Head(s) = r THEN <<Head(s)>> \o InsertRow(r, Tail(s))
    ELSE <<r>> \o s

RECURSIVE SortedRows(_)
SortedRows(J) == IF J = <<>> THEN <<>> ELSE InsertRow(Head(J), SortedRows(Tail(J)))

\* np.unique(I, axis=0): the distinct rows, sorted
np_unique_KeepAll(J) == SortedRows(J)

np_unique(J) == SortRows({J[k] : k \in 1..Len(J)})

\* I.shape[0] < m
Shortfall(J, mm) == Len(J) < mm

\* max_rep < 0 or m_fact > 1000000
Exhausted_NoCeiling(rep, f) == rep < 0

Exhausted(rep, f) == rep < 0 \/ f > MFactCeiling

\* the first k rows of the orders np.random.shuffle can leave J in
Heads(J, k) ==
    {[t \in 1..k |-> J[p[t]]] :
        p \in {q \in [1..k -> 1..Len(J)] : \A a, b \in 1..k : a # b => q[a] # q[b]}}

\* np.random.shuffle(I) if unique; I = I[:m]; ValueError if I.shape[0] != m
FinalBatch_OffByOne(J, mm, u) ==
    { [ok |-> TRUE, rows |-> B] :
        B \in IF u THEN Heads(J, Min(mm + 1, Len(J)))
              ELSE {SubSeq(J, 1, Min(mm + 1, Len(J)))} }

FinalBatch(J, mm, u) ==
    { [ok |-> Len(B) = mm, rows |-> B] :
        B \in IF u THEN Heads(J, Min(mm, Len(J)))
              ELSE {SubSeq(J, 1, Min(mm, Len(J)))} }

\* I / float_cf if float_cf is not None
Rescale(J) ==
    [k \in 1..Len(J) |->
       [c \in 1..Len(J[k]) |->
          <<J[k][c], IF float_cf.val = <<>> THEN 1 ELSE float_cf.val[1]>>]]

-----------------------------------------------------------------------------
(* sample_ind_rand: the call *)

Idle == /\ x = <<>> /\ x0 = <<>> /\ xs = <<>> /\ ys = <<>> /\ zq = 0 /\ Fz = <<>> /\ cpc = "idle"

Init ==
    /\ Z \in Tensors
    /\ m \in 1..MaxM
    /\ unique \in BOOLEAN
    /\ m_fact \in MFacts
    /\ max_rep \in -1..MaxRep
    /\ float_cf \in FloatCfs
    /\ pc = "call"
    /\ I = <<>> /\ Q = <<>> /\ Qtens = <<>> /\ di = 0 /\ im = 0 /\ P = {}
    /\ result = "none" /\ ret = <<>>
    /\ attempts = 0 /\ retries = 0 /\ width = 0
    /\ deduped = FALSE /\ shuffled = FALSE /\ hadDup = FALSE
    /\ zeroAt = <<>> /\ short = <<>> /\ call = <<>>
    /\ Idle

\* the call ends by raising
Raise(err) ==
    /\ pc' = "done"
    /\ result' = err

\* lines 84-90: the first read of the free name float_cf
Enter ==
    /\ pc = "call"
    /\ IF float_cf.bound
       THEN pc' = "first" /\ result' = result
       ELSE Raise("NameError")
    /\ UNCHANGED <<Z, m, unique, m_fact, max_rep, float_cf, I, Q, Qtens, di, im, P,
                   ret, attempts, retries, width, deduped, shuffled, hadDup,
                   zeroAt, short, call, cvars>>

\* lines 90-99 and _sample_core_first, the batch kept row by row
SampleCoreFirst ==
    /\ pc = "first"
    /\ ~Bulk
    /\ LET G == CoreAt(0)
           Qm == Reshape(G)
           mh == MHat(m, m_fact, unique)
           norms == Norms(Qm)
           c == Choice(norms)
       IN  /\ attempts' = attempts + 1
           /\ width' = mh
           /\ zeroAt' = IF SumSeq(norms) = 0 THEN <<0, 0>> ELSE zeroAt
           /\ IF c = {}
              THEN /\ Raise("Degenerate")
                   /\ UNCHANGED <<I, Q, di>>
              ELSE /\ \E ind \in [1..mh -> c] :
                        /\ Q' = [k \in 1..mh |-> Qm[ind[k] + 1]]
                        /\ I' = [k \in 1..mh |->
                                   [col \in 1..d |->
                                      IF col = 1 THEN Range(G.n)[ind[k] + 1][1]
                                      ELSE Unwritten]]
                   /\ di' = 1
                   /\ pc' = IF d > 1 THEN "dim" ELSE "post"
                   /\ result' = result
    /\ UNCHANGED <<Z, m, unique, m_fact, max_rep, float_cf, Qtens, im, P, ret,
                   retries, deduped, shuffled, hadDup, short, call, cvars>>

\* lines 101-108: the contraction of Q against the core of dimension di
BeginDim ==
    /\ pc = "dim"
    /\ ~Bulk
    /\ LET G == CoreAt(di)
       IN  /\ Qtens' = Einsum(Q, G)
           /\ Q' = [k \in 1..Len(Q) |-> [c \in 1..G.r2 |-> Unwritten]]
    /\ im' = 1
    /\ pc' = "loop"
    /\ UNCHANGED <<Z, m, unique, m_fact, max_rep, float_cf, I, di, P, result, ret,
                   attempts, retries, width, deduped, shuffled, hadDup, zeroAt,
                   short, call, cvars>>

\* lines 110-115: one pass of the loop over the candidates
DrawCandidate ==
    /\ pc = "loop"
    /\ LET qm == Qtens[im]
           norms == Norms(qm)
           c == Choice(norms)
       IN  /\ zeroAt' = IF SumSeq(norms) = 0 THEN <<di, im>> ELSE zeroAt
           /\ IF c = {}
              THEN /\ Raise("Degenerate")
                   /\ UNCHANGED <<I, Q, Qtens, di, im>>
              ELSE /\ \E i_cur \in c :
                        /\ I' = [I EXCEPT ![im][di + 1] = i_cur]
                        /\ Q' = [Q EXCEPT ![im] = qm[i_cur + 1]]
                   /\ result' = result
                   /\ IF im < Len(I)
                      THEN /\ im' = im + 1
                           /\ UNCHANGED <<Qtens, di, pc>>
                      ELSE /\ im' = 0
                           /\ Qtens' = <<>>
                           /\ di' = di + 1
                           /\ pc' = IF di + 1 < d THEN "dim" ELSE "post"
    /\ UNCHANGED <<Z, m, unique, m_fact, max_rep, float_cf, P, ret, attempts,
                   retries, width, deduped, shuffled, hadDup, short, call, cvars>>

\* lines 90-99 for a batch wider than MaxWidth: the distinct first indices
BulkCoreFirst ==
    /\ pc = "first"
    /\ Bulk
    /\ LET G == CoreAt(0)
           mh == MHat(m, m_fact, unique)
           norms == Norms(Reshape(G))
           c == Choice(norms)
       IN  /\ attempts' = attempts + 1
           /\ width' = mh
           /\ zeroAt' = IF SumSeq(norms) = 0 THEN <<0, 0>> ELSE zeroAt
           /\ IF c = {}
              THEN /\ Raise("Degenerate")
                   /\ UNCHANGED <<P, di>>
              ELSE /\ \E S \in SUBSET c :
                        /\ S # {}
                        /\ Cardinality(S) <= mh
                        /\ P' = {<<Range(G.n)[i + 1][1]>> : i \in S}
                   /\ di' = 1
                   /\ pc' = IF d > 1 THEN "dim" ELSE "post"
                   /\ result' = result
    /\ UNCHANGED <<Z, m, unique, m_fact, max_rep, float_cf, I, Q, Qtens, im, ret,
                   retries, deduped, shuffled, hadDup, short, call, cvars>>

\* lines 101-115 for a batch wider than MaxWidth: every distinct partial row is
\* continued by at least one candidate
BulkDim ==
    /\ pc = "dim"
    /\ Bulk
    /\ LET G == CoreAt(di)
           mh == MHat(m, m_fact, unique)
           cont(p) == Choice(Norms(Slice(ChainQ(p), G)))
           ext == {Append(p, i) : p \in P, i \in 0..(G.n - 1)}
       IN  IF \E p \in P : cont(p) = {}
           THEN /\ Raise("Degenerate")
                /\ zeroAt' = <<di, 0>>
                /\ UNCHANGED <<P, di>>
           ELSE /\ \E S \in SUBSET {e \in ext : e[di + 1] \in cont(SubSeq(e, 1, di))} :
                     /\ \A p \in P : \E e \in S : SubSeq(e, 1, di) = p
                     /\ Cardinality(S) <= mh
                     /\ P' = S
                /\ di' = di + 1
                /\ pc' = IF di + 1 < d THEN "dim" ELSE "post"
                /\ UNCHANGED <<result, zeroAt>>
    /\ UNCHANGED <<Z, m, unique, m_fact, max_rep, float_cf, I, Q, Qtens, im, ret,
                   attempts, retries, width, deduped, shuffled, hadDup, short,
                   call, cvars>>

\* lines 118-120: I = np.unique(I, axis=0)
Dedup ==
    /\ pc = "post"
    /\ unique
    /\ IF Bulk
       THEN /\ I' = SortRows(P)
            /\ hadDup' = (MHat(m, m_fact, unique) > Cardinality(P))
       ELSE /\ I' = np_unique(I)
            /\ hadDup' = (Cardinality({I[k] : k \in 1..Len(I)}) < Len(I))
    /\ deduped' = TRUE
    /\ Q' = <<>>
    /\ P' = {}
    /\ pc' = "deduped"
    /\ UNCHANGED <<Z, m, unique, m_fact, max_rep, float_cf, Qtens, di, im, result,
                   ret, attempts, retries, width, shuffled, zeroAt, short, call,
                   cvars>>

\* lines 121-124: too few unique rows and nothing left to retry with
Fail ==
    /\ pc = "deduped"
    /\ Shortfall(I, m)
    /\ Exhausted(max_rep, m_fact)
    /\ short' = Append(short, [nuniq |-> Len(I), m_fact |-> m_fact, max_rep |-> max_rep])
    /\ Raise("Insufficient")
    /\ UNCHANGED <<Z, m, unique, m_fact, max_rep, float_cf, I, Q, Qtens, di, im, P,
                   ret, attempts, retries, width, deduped, shuffled, hadDup,
                   zeroAt, call, cvars>>

\* line 125: sample_ind_rand(Y, m, True, 2*m_fact, max_rep - 1, float_cf=float_cf)
Retry ==
    /\ pc = "deduped"
    /\ Shortfall(I, m)
    /\ ~Exhausted(max_rep, m_fact)
    /\ short' = Append(short, [nuniq |-> Len(I), m_fact |-> m_fact, max_rep |-> max_rep])
    /\ retries' = retries + 1
    /\ call' = [m |-> m, unique |-> TRUE, m_fact |-> 2 * m_fact,
                max_rep |-> max_rep - 1, kw |-> {"float_cf"}]
    /\ IF Binds({"float_cf"})
       THEN /\ unique' = TRUE
            /\ m_fact' = 2 * m_fact
            /\ max_rep' = max_rep - 1
            /\ pc' = "call"
            /\ I' = <<>>
            /\ di' = 0
            /\ deduped' = FALSE
            /\ hadDup' = FALSE
            /\ result' = result
       ELSE /\ Raise("TypeError")
            /\ UNCHANGED <<unique, m_fact, max_rep, I, di, deduped, hadDup>>
    /\ UNCHANGED <<Z, m, float_cf, Q, Qtens, im, P, ret, attempts, width, shuffled,
                   zeroAt, cvars>>

\* lines 133-139 for one outcome o of lines 129-131
Finish(o) ==
    /\ I' = o.rows
    /\ IF o.ok
       THEN /\ ret' = Rescale(o.rows)
            /\ pc' = "done"
            /\ result' = "returned"
       ELSE /\ Raise("Insufficient")
            /\ ret' = ret

\* lines 128-139: enough unique rows
ShuffleReturn ==
    /\ pc = "deduped"
    /\ ~Shortfall(I, m)
    /\ shuffled' = TRUE
    /\ \E o \in FinalBatch(I, m, TRUE) : Finish(o)
    /\ UNCHANGED <<Z, m, unique, m_fact, max_rep, float_cf, Q, Qtens, di, im, P,
                   attempts, retries, width, deduped, hadDup, zeroAt, short, call,
                   cvars>>

\* lines 118, 131-139: unique is false
Return ==
    /\ pc = "post"
    /\ ~unique
    /\ \E o \in FinalBatch(I, m, FALSE) : Finish(o)
    /\ Q' = <<>>
    /\ UNCHANGED <<Z, m, unique, m_fact, max_rep, float_cf, Qtens, di, im, P,
                   attempts, retries, width, deduped, shuffled, hadDup, zeroAt,
                   short, call, cvars>>

Next ==
    \/ Enter
    \/ SampleCoreFirst
    \/ BeginDim
    \/ DrawCandidate
    \/ BulkCoreFirst
    \/ BulkDim
    \/ Dedup
    \/ Fail
    \/ Retry
    \/ ShuffleReturn
    \/ Return

Spec == Init /\ [][Next]_vars

-----------------------------------------------------------------------------
(* cdf_getter.  A float is a pair <<num, den>>, den > 0; an entry of the   *)
(* closure's x is <<>> for -inf and <<v>> for the sample value v.          *)

Samples == UNION {[1..n -> 0..MaxVal] : n \in 1..MaxLen}
Queries == -1..(MaxVal + 1)

RatLeq(a, b) == a[1] * b[2] <= b[1] * a[2]
RatEq(a, b) == a[1] * b[2] = b[1] * a[2]

\* np.array(x, copy=True): the data, and whether it is the caller's own buffer
np_array(a) == [data |-> a, shared |-> FALSE]

RECURSIVE Insert(_, _)
Insert(v, s) ==
    IF s = <<>> THEN <<v>>
    ELSE IF Head(s) <= v THEN <<Head(s)>> \o Insert(v, Tail(s))
    ELSE <<v>> \o s

\* x.sort()
RECURSIVE Sort(_)
Sort(s) == IF s = <<>> THEN <<>> ELSE Insert(Head(s), Sort(Tail(s)))

\* np.linspace(start, 1, n) with start = 1./n: start + k*step, step = (1 - start)/(n - 1)
Linspace(n) ==
    IF n = 1 THEN << <<1, 1>> >>
    ELSE [k \in 1..n |-> <<(n - 1) + (k - 1) * (n - 1), n * (n - 1)>>]

\* key < a[mid], a[mid] being -inf or a value
KeyLess(key, e) == e # <<>> /\ key < e[1]

\* e < key
LessKey(e, key) == e = <<>> \/ e[1] < key

\* np.searchsorted(a, key, 'right'): binary search over a[lo..hi-1] (0-based)
RECURSIVE BinRight(_, _, _, _)
BinRight(a, key, lo, hi) ==
    IF lo >= hi THEN lo
    ELSE LET mid == lo + (hi - lo) \div 2
         IN  IF KeyLess(key, a[mid + 1]) THEN BinRight(a, key, lo, mid)
             ELSE BinRight(a, key, mid + 1, hi)

RECURSIVE BinLeft(_, _, _, _)
BinLeft(a, key, lo, hi) ==
    IF lo >= hi THEN lo
    ELSE LET mid == lo + (hi - lo) \div 2
         IN  IF LessKey(a[mid + 1], key) THEN BinLeft(a, key, mid + 1, hi)
             ELSE BinLeft(a, key, lo, mid)

searchsorted_Left(a, key) == BinLeft(a, key, 0, Len(a))

searchsorted(a, key) == BinRight(a, key, 0, Len(a))

\* y[k] with Python's indexing: a negative k counts from the end
PyIndex(y, k) == IF k >= 0 THEN y[k + 1] ELSE y[Len(y) + k + 1]

\* def cdf(z): return y[np.searchsorted(x, z, 'right') - 1]
cdf(cx, cy, z) == PyIndex(cy, searchsorted(cx, z) - 1)

InitCdf ==
    /\ x \in Samples
    /\ x0 = x
    /\ xs = <<>> /\ ys = <<>> /\ zq = 0 /\ Fz = <<>>
    /\ cpc = "start"
    /\ Z = <<>> /\ m = 0 /\ unique = FALSE /\ m_fact = 0 /\ max_rep = 0
    /\ float_cf = [bound |-> FALSE, val |-> <<>>]
    /\ pc = "idle"
    /\ I = <<>> /\ Q = <<>> /\ Qtens = <<>> /\ di = 0 /\ im = 0 /\ P = {}
    /\ result = "none" /\ ret = <<>>
    /\ attempts = 0 /\ retries = 0 /\ width = 0
    /\ deduped = FALSE /\ shuffled = FALSE /\ hadDup = FALSE
    /\ zeroAt = <<>> /\ short = <<>> /\ call = <<>>

\* lines 41-51: build the closure
cdf_getter ==
    /\ cpc = "start"
    /\ LET arr == np_array(x)
           sorted == Sort(arr.data)
       IN  /\ x' = IF arr.shared THEN sorted ELSE x
           /\ xs' = << <<>> >> \o [k \in 1..Len(sorted) |-> <<sorted[k]>>]
           /\ ys' = << <<0, 1>> >> \o Linspace(Len(x))
    /\ cpc' = "built"
    /\ UNCHANGED <<x0, zq, Fz, svars>>

\* lines 48-49: one call of the returned function
CdfCall ==
    /\ cpc = "built"
    /\ \E z \in Queries :
          /\ zq' = z
          /\ Fz' = cdf(xs, ys, z)
    /\ UNCHANGED <<x, x0, xs, ys, cpc, svars>>

NextCdf == cdf_getter \/ CdfCall

SpecCdf == InitCdf /\ [][NextCdf]_vars

-----------------------------------------------------------------------------
(* Properties of sample_ind_rand *)

Errors == {"NameError", "TypeError", "Insufficient", "Degenerate"}

\* the query position of upsampled index j in _extend_core (line 60):
\* np.arange(n)*(nold - 1)/(n - 1) at j
GridPos(j, nold, n) == <<j * (nold - 1), n - 1>>

\* the multi-indices a candidate can end at: every prefix has positive mass
RECURSIVE ReachableTo(_)
ReachableTo(t) ==
    IF t = 1 THEN {<<i>> : i \in Choice(Norms(Reshape(CoreAt(0))))}
    ELSE UNION { {Append(p, i) : i \in Choice(Norms(Slice(ChainQ(p), CoreAt(t - 1))))} :
                   p \in ReachableTo(t - 1) }

Reachable == ReachableTo(d)

C2_UniqueRows ==
    (result = "returned" /\ unique) =>
        \A a, b \in 1..Len(ret) : a # b => ret[a] # ret[b]

C2_Witness ==
    /\ result = "returned"
    /\ unique
    /\ hadDup
    /\ Len(ret) = 2
    /\ ~Bulk

\* C3: with unique = True and fewer than m reachable multi-indices, the call ends
\* by raising the Insufficient-Unique-Samples error, whatever max_rep and m_fact
\* are.  Stated for the calls in which float_cf resolves and no candidate meets
\* a zero mass.
C3_AlwaysInsufficient ==
    (/\ pc = "done"
     /\ unique
     /\ float_cf.bound
     /\ zeroAt = <<>>
     /\ Cardinality(Reachable) < m)
        => result = "Insufficient"

C3_Witness ==
    /\ pc = "done"
    /\ unique
    /\ Cardinality(Reachable) = 1
    /\ m = 2
    /\ short # <<>>
    /\ short[1].max_rep = 0
    /\ float_cf = [bound |-> TRUE, val |-> <<>>]

\* C4: a call makes a bounded number of sampling attempts: with max_rep = R >= 0
\* at most R + 1 retries (none with R < 0), no retry after an attempt that fell
\* short with m_fact > 1000000 or max_rep < 0, and after each attempt the call
\* fails, retries or returns.
C4_BoundedRetries ==
    /\ attempts <= retries + 1
    /\ retries <= Len(short)
    /\ retries > 0 => (short[1].max_rep >= 0 /\ retries <= short[1].max_rep + 1)
    /\ \A i \in 1..Len(short) :
          (short[i].m_fact > MFactCeiling \/ short[i].max_rep < 0) =>
              /\ i = Len(short)
              /\ retries = i - 1
              /\ pc = "done"
              /\ result = "Insufficient"
    /\ pc = "deduped" => ENABLED (Fail \/ Retry \/ ShuffleReturn)

C4_Witness ==
    /\ pc = "done"
    /\ retries = 1
    /\ short[1].max_rep = 0
    /\ short[1].m_fact = MFactCeiling

C6_Degenerate ==
    zeroAt # <<>> =>
        /\ pc = "done"
        /\ result = "Degenerate"
        /\ ret = <<>>
        /\ retries = 0 /\ short = <<>> /\ ~deduped
        /\ zeroAt[1] = 0 => I = <<>>
        /\ (zeroAt[1] > 0 /\ ~Bulk) => I[zeroAt[2]][zeroAt[1] + 1] = Unwritten

C6_Witness ==
    /\ zeroAt = <<1, 2>>
    /\ I[1][2] # Unwritten

\* C8: an attempt short of m unique rows fails with Insufficient-Unique-Samples
\* if max_rep < 0 or m_fact > 1000000, and is otherwise followed by a fresh
\* sampling attempt with m_fact doubled and max_rep decremented; an attempt with
\* at least m unique rows is not retried.
C8_RetryRestarts ==
    /\ \A i \in 1..Len(short) :
          IF Exhausted(short[i].max_rep, short[i].m_fact)
          THEN result = "Insufficient"
          ELSE /\ call.m_fact = 2 * short[i].m_fact
               /\ call.max_rep = short[i].max_rep - 1
               /\ pc = "done" => attempts >= i + 1
    /\ shuffled => retries = Len(short)

C8_Witness ==
    /\ pc = "done"
    /\ Len(short) = 1
    /\ ~Exhausted(short[1].max_rep, short[1].m_fact)
    /\ call.m_fact = 2 * short[1].m_fact
    /\ call.max_rep = short[1].max_rep - 1

\* C9: within one attempt the batch keeps its width; after dimension i every
\* candidate has columns 0..i written, row k of Q is the contraction of the
\* cores 0..i at the indices I[k, 0..i], and a written column never changes.
WrittenTo(k, n) ==
    /\ \A c \in 1..n : I[k][c] # Unwritten
    /\ \A c \in (n + 1)..d : I[k][c] = Unwritten

C9_Inv ==
    /\ (pc \in {"dim", "loop"} \/ (pc = "post" /\ Q # <<>>)) /\ ~Bulk =>
          /\ Len(I) = MHat(m, m_fact, unique)
          /\ Len(Q) = Len(I)
          /\ width = Len(I)
    /\ (pc = "dim" \/ (pc = "post" /\ Q # <<>>)) /\ ~Bulk =>
          \A k \in 1..Len(I) :
              /\ WrittenTo(k, di)
              /\ Q[k] = ChainQ(SubSeq(I[k], 1, di))
    /\ pc = "loop" =>
          /\ \A k \in 1..(im - 1) :
                /\ WrittenTo(k, di + 1)
                /\ Q[k] = ChainQ(SubSeq(I[k], 1, di + 1))
          /\ \A k \in im..Len(I) : WrittenTo(k, di)

C9_Step ==
    pc \in {"dim", "loop"} =>
        /\ Len(I') = Len(I)
        /\ \A k \in 1..Len(I) : \A c \in 1..d :
              I[k][c] # Unwritten => I'[k][c] = I[k][c]

C9_Candidates == []C9_Inv /\ [][C9_Step]_vars

C9_Witness ==
    /\ pc = "post"
    /\ d = 2
    /\ Len(Q) = 2
    /\ Q[1] # Q[2]
    /\ I[1][2] = I[2][2]

\* C10: with upsampling factor c, every returned entry of dimension i equals the
\* native-grid position at which _extend_core evaluated the drawn index, and
\* lies in [0, n_i - 1].
C10_NativeUnits ==
    (result = "returned" /\ float_cf.val # <<>>) =>
        \A k \in 1..Len(ret) : \A c \in 1..Len(ret[k]) :
            LET n == Z[c].n
                e == ret[k][c]
            IN  /\ RatEq(e, GridPos(I[k][c], n, n * float_cf.val[1]))
                /\ RatLeq(<<0, 1>>, e)
                /\ RatLeq(e, <<n - 1, 1>>)

C10_Witness ==
    /\ result = "returned"
    /\ float_cf.val = <<2>>
    /\ Z = TOne
    /\ ret = << << <<3, 2>> >> >>

-----------------------------------------------------------------------------
(* Properties of cdf_getter *)

\* number of sample values <= z
CountLeq(s, z) == Cardinality({k \in 1..Len(s) : s[k] <= z})

\* C7: the function returned by cdf_getter(x) yields (number of sample values
\* <= z) / m: 0 below the minimum, 1 from the maximum on, non-decreasing in z;
\* it depends on x only up to order, and the caller's x is left as it was.
C7_Cdf ==
    /\ x = x0
    /\ cpc = "built" =>
          /\ \A z \in Queries :
                /\ RatEq(cdf(xs, ys, z), <<CountLeq(x0, z), Len(x0)>>)
                /\ (\A k \in 1..Len(x0) : z < x0[k]) => RatEq(cdf(xs, ys, z), <<0, 1>>)
                /\ (\A k \in 1..Len(x0) : x0[k] <= z) => RatEq(cdf(xs, ys, z), <<1, 1>>)
          /\ \A z1, z2 \in Queries :
                z1 <= z2 => RatLeq(cdf(xs, ys, z1), cdf(xs, ys, z2))
    /\ Fz # <<>> => RatEq(Fz, <<CountLeq(x0, zq), Len(x0)>>)

C7_Witness ==
    /\ cpc = "built"
    /\ x0 = <<2, 0, 2>>
    /\ zq = 2
    /\ Fz # <<>>
    /\ RatEq(Fz, <<1, 1>>)

====
